---- MODULE Spec2Model ----
(***************************************************************************)
(* A model of the image tagger: the tag catalog manager (images.py), the   *)
(* tags table behind it (database.py) and the configuration reader         *)
(* (config.py).                                                            *)
(*                                                                         *)
(* File paths are the numbers 1..NumPaths, ordered as the path strings     *)
(* are.  Timestamps are the numbers 1..MaxTime, ordered as the strings     *)
(* "%Y-%m-%dT%H:%M:%S" are.  Image ids are numbers from 100 up.            *)
(***************************************************************************)
EXTENDS Integers, Sequences, FiniteSets

VARIABLES
    db,         \* the rows of the tags table of the SQLite file
    _images,    \* Images._images, the catalog (a sequence of rows)
    _ids,       \* Images._ids
    now,        \* the local clock, dt.datetime.now()
    ret,        \* the last call on the Images object and its outcome
    _config,    \* ConfigReader._config
    cret        \* the last call on the ConfigReader and its outcome

vars == <<db, _images, _ids, now, ret, _config, cret>>

----------------------------------------------------------------------------
(* Bounds *)

NumPaths == 2
MaxTime == 2

Paths == 1..NumPaths

(* The tags and the remark a tagging form sends. *)
Contents == {<<"cat", "">>, <<"cat", "x">>, <<"dog", "x">>}

----------------------------------------------------------------------------
(* Values *)

(* A cell pandas holds no value for: the tags and remark of a file that has *)
(* no row in the table. *)
NaN == "NaN"

(* The same for the updated column. *)
NaT == 0

(* Python's None as an image id, and as an index into _ids. *)
NoneId == 0
NoneIdx == -1

(* Python's != on two cells: a NaN differs from everything, itself included. *)
Neq(a, b) == a = NaN \/ b = NaN \/ a # b

(* hashlib.md5 of the path string: injective on the paths of the model and *)
(* unrelated to their order. *)
_hash(filepath) == 100 + ((filepath * 5) % 7)

(* The id of a file that was never there. *)
UnknownId == _hash(0)

IdValues == {_hash(p) : p \in Paths} \cup {UnknownId}

----------------------------------------------------------------------------
(* DataFrame.sort_values(["updated", "path"]): ascending, with the default  *)
(* na_position = "last", so a missing updated sorts after every timestamp.  *)

(* The same with na_position = "first". *)
SortsBefore_nulls_first(a, b) ==
    IF a.updated = NaT /\ b.updated = NaT THEN a.path < b.path
    ELSE IF a.updated = NaT THEN TRUE
    ELSE IF b.updated = NaT THEN FALSE
    ELSE a.updated < b.updated \/ (a.updated = b.updated /\ a.path < b.path)

SortsBefore(a, b) ==
    IF a.updated = NaT /\ b.updated = NaT THEN a.path < b.path
    ELSE IF a.updated = NaT THEN FALSE
    ELSE IF b.updated = NaT THEN TRUE
    ELSE a.updated < b.updated \/ (a.updated = b.updated /\ a.path < b.path)

RECURSIVE sort_values(_)
sort_values(rows) ==
    IF rows = {} THEN <<>>
    ELSE LET first == CHOOSE r \in rows :
                          \A o \in rows : o = r \/ SortsBefore(r, o)
         IN  <<first>> \o sort_values(rows \ {first})

(* Images._load_images from "Load tag data" on: the catalog built from the *)
(* globbed files and the rows of the table. *)
NewRow(p) ==
    [id |-> _hash(p), path |-> p, tags |-> NaN, remark |-> NaN, updated |-> NaT]

(* _load_images without the set difference: every file found gets a new    *)
(* record.                                                                 *)
_load_images_no_difference(files, tagged) ==
    sort_values(tagged \cup {NewRow(p) : p \in files})

_load_images(files, tagged) ==
    LET untagged == files \ {r.path : r \in tagged}
        new == {NewRow(p) : p \in untagged}
    IN  sort_values(tagged \cup new)

IdList(images) == [i \in 1..Len(images) |-> images[i].id]

----------------------------------------------------------------------------
(* The read operations of Images.  Each gives [exc, val]: the exception it *)
(* raises ("" for none) and the value it returns.                          *)

Ok(v) == [exc |-> "", val |-> v]
Raise(e) == [exc |-> e, val |-> NoneId]

(* first_untagged_id taking the last untagged row, iloc[-1]. *)
first_untagged_id_last ==
    LET untagged == SelectSeq(_images, LAMBDA r : r.updated = NaT)
    IN  IF untagged = <<>> THEN _ids[Len(_ids)]
        ELSE untagged[Len(untagged)].id

(* Images.first_untagged_id *)
first_untagged_id ==
    LET untagged == SelectSeq(_images, LAMBDA r : r.updated = NaT)
    IN  IF untagged = <<>> THEN _ids[Len(_ids)] ELSE untagged[1].id

(* Images.get *)
get(image_id) ==
    LET image == SelectSeq(_images, LAMBDA r : r.id = image_id)
    IN  IF image = <<>> THEN Raise("RuntimeError") ELSE Ok(image[1])

(* Images._get_index: list.index gives the first position, counted from 0. *)
_get_index(image_id) ==
    IF \E i \in 1..Len(_ids) : _ids[i] = image_id
    THEN (CHOOSE i \in 1..Len(_ids) :
              /\ _ids[i] = image_id
              /\ \A j \in 1..(i - 1) : _ids[j] # image_id) - 1
    ELSE NoneIdx

(* Images.next_id: None < int raises TypeError. *)
next_id(image_id) ==
    LET idx == _get_index(image_id)
    IN  IF idx = NoneIdx THEN Raise("TypeError")
        ELSE IF idx < Len(_ids) - 1 THEN Ok(_ids[(idx + 1) + 1])
        ELSE Ok(NoneId)

(* prev_id with idx > 1 for idx > 0. *)
prev_id_off_by_one(image_id) ==
    LET idx == _get_index(image_id)
    IN  IF idx = NoneIdx THEN Raise("TypeError")
        ELSE IF idx > 1 THEN Ok(_ids[(idx - 1) + 1])
        ELSE Ok(NoneId)

(* Images.prev_id *)
prev_id(image_id) ==
    LET idx == _get_index(image_id)
    IN  IF idx = NoneIdx THEN Raise("TypeError")
        ELSE IF idx > 0 THEN Ok(_ids[(idx - 1) + 1])
        ELSE Ok(NoneId)

(* dump_data without dropna. *)
dump_data_all == _images

(* Images.dump_data: dropna keeps the rows in their order. *)
dump_data == SelectSeq(_images, LAMBDA r : r.updated # NaT)

----------------------------------------------------------------------------
(* Images.store and what it calls. *)

(* The required keys with remark forgotten. *)
Required_without_remark == {"id", "tags"}

Required == {"id", "tags", "remark"}

(* The dicts store is called with: the three required keys, possibly with a *)
(* path of the caller's, or with one required key left out.                 *)
FullData ==
    {[id |-> i, tags |-> c[1], remark |-> c[2]] : i \in IdValues, c \in Contents}
DataWithPath == [id : IdValues, tags : {"cat"}, remark : {"x"}, path : {1}]
PartialData ==
    {[id |-> UnknownId, tags |-> "cat"], [id |-> _hash(1), remark |-> "x"],
     [tags |-> "cat", remark |-> "x"]}
DataValues == FullData \cup DataWithPath \cup PartialData

(* store without data["path"] = old["path"]: a path of the caller's stays.  *)
Stamped_caller_path(data, old) ==
    [id |-> data.id, tags |-> data.tags, remark |-> data.remark,
     updated |-> now,
     path |-> IF "path" \in DOMAIN data THEN data.path ELSE old.path]

(* data after data["updated"] = ...; data["path"] = old["path"] *)
Stamped(data, old) ==
    [id |-> data.id, tags |-> data.tags, remark |-> data.remark,
     updated |-> now, path |-> old.path]

(* The catalog replaced by the one-row frame instead of updated from it. *)
update_replaces(images, data, idx) ==
    <<[id |-> data.id, path |-> data.path, tags |-> data.tags,
       remark |-> data.remark, updated |-> data.updated]>>

(* DataFrame.update with a one-row frame at index idx: every column of the  *)
(* catalog that data has takes data's value in that row.                    *)
update(images, data, idx) ==
    [images EXCEPT ![idx + 1] =
        [id |-> data.id, path |-> data.path, tags |-> data.tags,
         remark |-> data.remark, updated |-> data.updated]]

(* The statement with an UPDATE that has no WHERE: on a row with the same   *)
(* id every row takes the new tags, remark and updated.                     *)
upsert_updates_all_rows(table, data) ==
    IF \E r \in table : r.id = data.id
    THEN [exc |-> "",
          table |-> {[r EXCEPT !.tags = data.tags, !.remark = data.remark,
                               !.updated = data.updated] : r \in table}]
    ELSE IF \E r \in table : r.path = data.path
    THEN [exc |-> "IntegrityError", table |-> table]
    ELSE [exc |-> "",
          table |-> table \cup
              {[id |-> data.id, path |-> data.path, tags |-> data.tags,
                remark |-> data.remark, updated |-> data.updated]}]

(* The statement of Images._write_database on the table: a new row, or on a *)
(* row with the same id its tags, remark and updated replaced.  A row with  *)
(* the same path under another id breaks UNIQUE(path).                      *)
upsert(table, data) ==
    IF \E r \in table : r.id = data.id
    THEN [exc |-> "",
          table |-> {IF r.id = data.id
                     THEN [r EXCEPT !.tags = data.tags, !.remark = data.remark,
                                    !.updated = data.updated]
                     ELSE r : r \in table}]
    ELSE IF \E r \in table : r.path = data.path
    THEN [exc |-> "IntegrityError", table |-> table]
    ELSE [exc |-> "",
          table |-> table \cup
              {[id |-> data.id, path |-> data.path, tags |-> data.tags,
                remark |-> data.remark, updated |-> data.updated]}]

(* store without the check for changes. *)
Changed_always(data, old) == TRUE

(* Whether store finds data to differ from the row it has. *)
Changed(data, old) ==
    Neq(data.tags, old.tags) \/ Neq(data.remark, old.remark)

(* What a call of store leaves behind: arg is the dict as the caller passed *)
(* it, data the dict after the call (store writes into it), exc the        *)
(* exception raised, wrote whether _write_database was called.             *)
StoreRet(arg, data, exc, wrote) ==
    [op |-> "store", arg |-> arg, data |-> data, exc |-> exc, wrote |-> wrote]

(* Images.store(data).  Database.query is taken to succeed: the only error *)
(* the statement itself can give is the one upsert reports.                *)
store(data) ==
    LET missing == Required \ DOMAIN data
    IN  IF missing # {}
        THEN /\ ret' = StoreRet(data, data, "KeyError", FALSE)
             /\ UNCHANGED <<db, _images, _ids, now, _config, cret>>
        ELSE LET old == get(data.id)
             IN  IF old.exc # ""
                 THEN /\ ret' = StoreRet(data, data, old.exc, FALSE)
                      /\ UNCHANGED <<db, _images, _ids, now, _config, cret>>
                 ELSE IF Changed(data, old.val)
                 THEN LET stamped == Stamped(data, old.val)
                          idx == _get_index(data.id)
                          written == upsert(db, stamped)
                      IN  /\ _images' = update(_images, stamped, idx)
                          /\ db' = written.table
                          /\ ret' = StoreRet(data, stamped, written.exc, TRUE)
                          /\ UNCHANGED <<_ids, now, _config, cret>>
                 ELSE /\ ret' = StoreRet(data, data, "", FALSE)
                      /\ UNCHANGED <<db, _images, _ids, now, _config, cret>>

----------------------------------------------------------------------------
(* The calls that only read. *)

CallGet(image_id) ==
    /\ ret' = [op |-> "get", id |-> image_id, exc |-> get(image_id).exc,
               rows |-> IF get(image_id).exc = "" THEN <<get(image_id).val>>
                        ELSE <<>>]
    /\ UNCHANGED <<db, _images, _ids, now, _config, cret>>

CallNextId(image_id) ==
    /\ ret' = [op |-> "next_id", id |-> image_id,
               exc |-> next_id(image_id).exc, val |-> next_id(image_id).val]
    /\ UNCHANGED <<db, _images, _ids, now, _config, cret>>

CallPrevId(image_id) ==
    /\ ret' = [op |-> "prev_id", id |-> image_id,
               exc |-> prev_id(image_id).exc, val |-> prev_id(image_id).val]
    /\ UNCHANGED <<db, _images, _ids, now, _config, cret>>

CallFirstUntaggedId ==
    /\ ret' = [op |-> "first_untagged_id", exc |-> "", val |-> first_untagged_id]
    /\ UNCHANGED <<db, _images, _ids, now, _config, cret>>

CallDumpData ==
    /\ ret' = [op |-> "dump_data", exc |-> "", rows |-> dump_data]
    /\ UNCHANGED <<db, _images, _ids, now, _config, cret>>

----------------------------------------------------------------------------
(* ConfigReader.  A path is a string over Alphabet, a sequence of its       *)
(* characters.  A value of the configuration is a mapping from keys to      *)
(* values, a string, a number or None, as yaml.safe_load gives them.        *)

MaxPathLen == 3

Alphabet == {"a", "/"}

RECURSIVE StringsUpTo(_)
StringsUpTo(n) ==
    IF n = 0 THEN {<<>>}
    ELSE StringsUpTo(n - 1) \cup
         {Append(t, c) : t \in {u \in StringsUpTo(n - 1) : Len(u) = n - 1},
                         c \in Alphabet}

PathValues == StringsUpTo(MaxPathLen)

Mapping(items) == [kind |-> "map", items |-> items]
Str(chars) == [kind |-> "str", chars |-> chars]
Number(n) == [kind |-> "int", n |-> n]
None == [kind |-> "none"]

NotFoundValues == {"silent", "warn", "error", "raise"}

(* "/" in path, and the two parts path.split("/", 1) gives. *)
HasSlash(path) == \E i \in 1..Len(path) : path[i] = "/"
FirstSlash(path) ==
    CHOOSE i \in 1..Len(path) :
        path[i] = "/" /\ \A j \in 1..(i - 1) : path[j] # "/"
SplitKey(path) == SubSeq(path, 1, FirstSlash(path) - 1)
SplitRest(path) == SubSeq(path, FirstSlash(path) + 1, Len(path))

(* key in section, for the sections Python answers it for: a key of a       *)
(* mapping, a substring of a string.                                        *)
In(key, section) ==
    IF section.kind = "map" THEN key \in DOMAIN section.items
    ELSE \E i \in 0..(Len(section.chars) - Len(key)) :
             SubSeq(section.chars, i + 1, i + Len(key)) = key

(* ConfigReader._check_key: [exc, found, warned].  key not in section       *)
(* raises TypeError on a number and on None.                                *)
Valid == {"error", "warn", "silent"}

(* _check_key looking at not_found only once the key is missing. *)
_check_key_validates_late(section, key, not_found) ==
    IF section.kind \in {"int", "none"}
    THEN [exc |-> "TypeError", found |-> FALSE, warned |-> FALSE]
    ELSE IF ~In(key, section)
    THEN IF not_found \notin Valid
         THEN [exc |-> "ValueError", found |-> FALSE, warned |-> FALSE]
         ELSE IF not_found = "error"
         THEN [exc |-> "KeyError", found |-> FALSE, warned |-> FALSE]
         ELSE [exc |-> "", found |-> FALSE, warned |-> not_found = "warn"]
    ELSE [exc |-> "", found |-> TRUE, warned |-> FALSE]

_check_key(section, key, not_found) ==
    IF not_found \notin Valid
    THEN [exc |-> "ValueError", found |-> FALSE, warned |-> FALSE]
    ELSE IF section.kind \in {"int", "none"}
    THEN [exc |-> "TypeError", found |-> FALSE, warned |-> FALSE]
    ELSE IF ~In(key, section)
    THEN IF not_found = "error"
         THEN [exc |-> "KeyError", found |-> FALSE, warned |-> FALSE]
         ELSE [exc |-> "", found |-> FALSE, warned |-> not_found = "warn"]
    ELSE [exc |-> "", found |-> TRUE, warned |-> FALSE]

(* ConfigReader.get from the point where parent and path stand:             *)
(* [exc, val, warned].  parent[key] on a string raises TypeError.           *)
RECURSIVE ConfigReader_get_from(_, _, _, _)
ConfigReader_get_from(parent, path, default, not_found) ==
    LET key == IF HasSlash(path) THEN SplitKey(path) ELSE path
        checked == _check_key(parent, key, not_found)
    IN  IF checked.exc # ""
        THEN [exc |-> checked.exc, val |-> None, warned |-> FALSE]
        ELSE IF ~checked.found
        THEN [exc |-> "", val |-> default, warned |-> checked.warned]
        ELSE IF parent.kind # "map"
        THEN [exc |-> "TypeError", val |-> None, warned |-> FALSE]
        ELSE IF HasSlash(path)
        THEN ConfigReader_get_from(parent.items[key], SplitRest(path), default,
                                   not_found)
        ELSE [exc |-> "", val |-> parent.items[key], warned |-> FALSE]

ConfigReader_get(path, default, not_found) ==
    ConfigReader_get_from(_config, path, default, not_found)

(* ConfigReader.set from the point where parent and path stand:             *)
(* [exc, val, warned, node], node being parent after the call.              *)
RECURSIVE ConfigReader_set_from(_, _, _, _)
ConfigReader_set_from(parent, path, value, not_found) ==
    LET key == IF HasSlash(path) THEN SplitKey(path) ELSE path
        checked == _check_key(parent, key, not_found)
    IN  IF checked.exc # ""
        THEN [exc |-> checked.exc, val |-> FALSE, warned |-> FALSE,
              node |-> parent]
        ELSE IF ~checked.found
        THEN [exc |-> "", val |-> FALSE, warned |-> checked.warned,
              node |-> parent]
        ELSE IF parent.kind # "map"
        THEN [exc |-> "TypeError", val |-> FALSE, warned |-> FALSE,
              node |-> parent]
        ELSE IF HasSlash(path)
        THEN LET below == ConfigReader_set_from(parent.items[key],
                                                SplitRest(path), value, not_found)
             IN  [below EXCEPT !.node =
                     Mapping([parent.items EXCEPT ![key] = below.node])]
        ELSE [exc |-> "", val |-> TRUE, warned |-> FALSE,
              node |-> Mapping([parent.items EXCEPT ![key] = value])]

ConfigReader_set(path, value, not_found) ==
    ConfigReader_set_from(_config, path, value, not_found)

(* The documents the reader is constructed on, the default get is given and *)
(* the value set is given.                                                  *)
Section(value) == Mapping([k \in {<<"a">>} |-> value])
Document(a, aa) ==
    Mapping([k \in {<<"a">>, <<"a", "a">>} |-> IF k = <<"a">> THEN a ELSE aa])
ConfigValues ==
    {Document(Section(Str(<<"a">>)), Number(1)),
     Document(Str(<<"a", "a">>), Section(Number(1))),
     None}
DefaultValue == Str(<<"a">>)
SetValue == Number(2)

CallConfigGet(path, not_found) ==
    /\ cret' = [op |-> "get", path |-> path, not_found |-> not_found,
                out |-> ConfigReader_get(path, DefaultValue, not_found)]
    /\ UNCHANGED <<_config, db, _images, _ids, now, ret>>

CallConfigSet(path, not_found) ==
    LET out == ConfigReader_set(path, SetValue, not_found)
    IN  /\ _config' = out.node
        /\ cret' = [op |-> "set", path |-> path, not_found |-> not_found,
                    out |-> [exc |-> out.exc, val |-> out.val,
                             warned |-> out.warned]]
        /\ UNCHANGED <<db, _images, _ids, now, ret>>

----------------------------------------------------------------------------
(* Start and restart: Images.__init__ on the table as it is and the files   *)
(* glob finds then.  With no file found __init__ raises and there is no     *)
(* Images object.                                                           *)

Construct(files) ==
    /\ files # {}
    /\ _images' = _load_images(files, db)
    /\ _ids' = IdList(_load_images(files, db))
    /\ ret' = [op |-> "init", files |-> files]
    /\ UNCHANGED <<db, now, _config, cret>>

(* The clock moves on. *)
Tick ==
    /\ now < MaxTime
    /\ now' = now + 1
    /\ ret' = [op |-> "tick"]
    /\ UNCHANGED <<db, _images, _ids, _config, cret>>

InitConfigIdle == _config = None /\ cret = [op |-> "init"]

InitImages ==
    /\ db = {}
    /\ \E files \in (SUBSET Paths) \ {{}} :
          /\ _images = _load_images(files, db)
          /\ ret = [op |-> "init", files |-> files]
    /\ _ids = IdList(_images)
    /\ now = 1

Init == InitImages /\ InitConfigIdle

Next ==
    \/ \E data \in DataValues : store(data)
    \/ \E image_id \in IdValues : CallGet(image_id)
    \/ \E image_id \in IdValues : CallNextId(image_id)
    \/ \E image_id \in IdValues : CallPrevId(image_id)
    \/ CallFirstUntaggedId
    \/ CallDumpData
    \/ \E files \in SUBSET Paths : Construct(files)
    \/ Tick

Spec == Init /\ [][Next]_vars

(* The configuration reader on its own, the catalog being as it was built   *)
(* from one file.                                                           *)
InitConfig ==
    /\ _config \in ConfigValues
    /\ cret = [op |-> "init"]
    /\ db = {}
    /\ _images = _load_images({1}, db)
    /\ _ids = IdList(_images)
    /\ now = 1
    /\ ret = [op |-> "init", files |-> {1}]

NextConfig ==
    \/ \E path \in PathValues, not_found \in NotFoundValues :
           CallConfigGet(path, not_found)
    \/ \E path \in PathValues, not_found \in NotFoundValues :
           CallConfigSet(path, not_found)

SpecConfig == InitConfig /\ [][NextConfig]_vars

----------------------------------------------------------------------------
(* The claims. *)

Positions == 1..Len(_images)
Tagged(r) == r.updated # NaT

(* C1 as the specification states it: right after initialization the       *)
(* catalog is sorted by (updated, path) with nulls first: every untagged   *)
(* record is before every tagged one, tagged records ascend by updated,    *)
(* and records of equal updated (both null included) ascend by path.       *)
C1_SortedNullsFirst ==
    ret.op = "init" =>
        \A i, j \in Positions : i < j =>
            /\ Tagged(_images[i]) => Tagged(_images[j])
            /\ Tagged(_images[i]) /\ Tagged(_images[j])
                   => _images[i].updated <= _images[j].updated
            /\ _images[i].updated = _images[j].updated
                   => _images[i].path < _images[j].path

(* C1, amended: right after initialization the catalog is sorted by        *)
(* (updated, path) with nulls last: every tagged record is before every    *)
(* untagged one, tagged records ascend by updated, and records of equal    *)
(* updated (both null included) ascend by path.                            *)
C1_SortedNullsLast ==
    ret.op = "init" =>
        \A i, j \in Positions : i < j =>
            /\ Tagged(_images[j]) => Tagged(_images[i])
            /\ Tagged(_images[i]) /\ Tagged(_images[j])
                   => _images[i].updated <= _images[j].updated
            /\ _images[i].updated = _images[j].updated
                   => _images[i].path < _images[j].path

(* A restart that finds a row in the table and a file without one. *)
C1_Witness ==
    /\ ret.op = "init"
    /\ Len(_images) >= 2
    /\ Tagged(_images[1])
    /\ ~Tagged(_images[2])

(* C2: after every initialization the catalog has exactly one record per   *)
(* path among the files found and the rows of the table: every row of the  *)
(* table as it is stored, every other file as an untagged record with id   *)
(* = hash(path) and no tags or remark, and no id twice.                    *)
C2_CatalogIsUnion ==
    ret.op = "init" =>
        LET persisted == {r.path : r \in db}
            paths == ret.files \cup persisted
        IN  /\ {_images[i].path : i \in Positions} = paths
            /\ Len(_images) = Cardinality(paths)
            /\ \A r \in db : \E i \in Positions : _images[i] = r
            /\ \A p \in ret.files \ persisted :
                   \E i \in Positions :
                       _images[i] = [id |-> _hash(p), path |-> p, tags |-> NaN,
                                     remark |-> NaN, updated |-> NaT]
            /\ \A i, j \in Positions : i # j => _images[i].id # _images[j].id

(* A restart with a row whose file is gone and a file without a row. *)
C2_Witness ==
    /\ ret.op = "init"
    /\ \E r \in db : r.path \notin ret.files
    /\ \E p \in ret.files : \A r \in db : r.path # p

(* C3: in every state first_untagged_id() is the id of the record at the   *)
(* lowest catalog position whose updated is null, or, no record having a   *)
(* null updated, the id of the record at the last position; with files     *)
(* {1, 2} and an empty table it is the id of file 1.                       *)
C3_FirstUntagged ==
    /\ Len(_images) > 0 =>
          IF \E i \in Positions : ~Tagged(_images[i])
          THEN \E i \in Positions :
                   /\ ~Tagged(_images[i])
                   /\ \A j \in 1..(i - 1) : Tagged(_images[j])
                   /\ first_untagged_id = _images[i].id
          ELSE first_untagged_id = _images[Len(_images)].id
    /\ (ret.op = "init" /\ ret.files = {1, 2} /\ db = {})
          => first_untagged_id = _hash(1)

(* first_untagged_id called with a tagged record before the first untagged *)
(* one.                                                                    *)
C3_Witness ==
    /\ ret.op = "first_untagged_id"
    /\ Len(_images) >= 2
    /\ Tagged(_images[1])
    /\ ~Tagged(_images[2])
    /\ ret.val = _images[2].id

(* C4: a store whose id is in the catalog, whose tags or remark differ     *)
(* from the record's and whose write succeeds leaves the record with the   *)
(* tags and remark given, the path it had (whatever path data carried) and *)
(* updated equal to the current time, not null; and the table then holds   *)
(* exactly one row for the id, with the same five values, inserted if      *)
(* there was none and updated in place otherwise.                          *)
C4_StoreWritesRecord ==
    [][(/\ ret'.op = "store"
        /\ {"id", "tags", "remark"} \subseteq DOMAIN ret'.arg
        /\ \E i \in Positions :
               /\ _images[i].id = ret'.arg.id
               /\ \/ _images[i].tags # ret'.arg.tags
                  \/ _images[i].remark # ret'.arg.remark
        /\ ret'.exc = "")
       => \E i \in Positions :
              /\ _images[i].id = ret'.arg.id
              /\ \A k \in 1..Len(_images') :
                     _images'[k].id = ret'.arg.id <=> k = i
              /\ _images'[i] = [id |-> ret'.arg.id, path |-> _images[i].path,
                                tags |-> ret'.arg.tags,
                                remark |-> ret'.arg.remark, updated |-> now]
              /\ now # NaT
              /\ {r \in db' : r.id = ret'.arg.id} = {_images'[i]}
              /\ IF \E r \in db : r.id = ret'.arg.id
                 THEN Cardinality(db') = Cardinality(db)
                 ELSE db' = db \cup {_images'[i]}
      ]_vars

(* A store that changed a record, called with a path that is not the       *)
(* record's.                                                               *)
C4_Witness ==
    /\ ret.op = "store"
    /\ ret.wrote
    /\ ret.exc = ""
    /\ "path" \in DOMAIN ret.arg
    /\ ret.arg.path # ret.data.path
    /\ \E r \in db : r.id = ret.arg.id /\ r.updated = now

(* C5: a store whose tags and remark both equal the record's changes       *)
(* nothing: not the record's updated, no catalog record, and it writes     *)
(* nothing to the table; so for a store repeated right after one that      *)
(* changed the record.                                                     *)
C5_StoreUnchangedIsNoOp ==
    [][/\ (/\ ret'.op = "store"
           /\ {"id", "tags", "remark"} \subseteq DOMAIN ret'.arg
           /\ \E i \in Positions :
                  /\ _images[i].id = ret'.arg.id
                  /\ _images[i].tags = ret'.arg.tags
                  /\ _images[i].remark = ret'.arg.remark)
          => /\ _images' = _images
             /\ _ids' = _ids
             /\ db' = db
             /\ ~ret'.wrote
             /\ ret'.exc = ""
       /\ (/\ ret.op = "store"
           /\ ret.wrote
           /\ ret'.op = "store"
           /\ ret'.arg = ret.arg)
          => /\ _images' = _images
             /\ db' = db
             /\ ~ret'.wrote
      ]_vars

(* A store that found a tagged record unchanged. *)
C5_Witness ==
    /\ ret.op = "store"
    /\ ret.exc = ""
    /\ ~ret.wrote
    /\ \E i \in Positions : _images[i].id = ret.arg.id /\ Tagged(_images[i])

(* C6: a store without one of the keys id, tags, remark raises KeyError    *)
(* before any lookup and leaves the catalog, the id list and the table as  *)
(* they were.                                                              *)
C6_StoreMissingKey ==
    [][(/\ ret'.op = "store"
        /\ ~({"id", "tags", "remark"} \subseteq DOMAIN ret'.arg))
       => /\ ret'.exc = "KeyError"
          /\ ~ret'.wrote
          /\ _images' = _images
          /\ _ids' = _ids
          /\ db' = db
      ]_vars

(* A store without remark, for an id that is not in the catalog. *)
C6_Witness ==
    /\ ret.op = "store"
    /\ "remark" \notin DOMAIN ret.arg
    /\ "id" \in DOMAIN ret.arg
    /\ \A i \in Positions : _images[i].id # ret.arg.id
    /\ ret.exc = "KeyError"

(* C7: in every state, for every catalog id x that is not the last,        *)
(* next_id(x) is the id right after x and prev_id(next_id(x)) = x; for     *)
(* every x that is not the first, prev_id(x) is the id right before x and  *)
(* next_id(prev_id(x)) = x; next_id of the last and prev_id of the first   *)
(* are None.                                                               *)
C7_Navigation ==
    \A i \in Positions :
        LET x == _images[i].id
        IN  /\ i < Len(_images) =>
                /\ next_id(x) = [exc |-> "", val |-> _images[i + 1].id]
                /\ prev_id(next_id(x).val) = [exc |-> "", val |-> x]
            /\ i > 1 =>
                /\ prev_id(x) = [exc |-> "", val |-> _images[i - 1].id]
                /\ next_id(prev_id(x).val) = [exc |-> "", val |-> x]
            /\ i = Len(_images) => next_id(x) = [exc |-> "", val |-> NoneId]
            /\ i = 1 => prev_id(x) = [exc |-> "", val |-> NoneId]

(* next_id called on the first id, after a store has tagged the second     *)
(* record and left the first untagged.                                     *)
C7_Witness ==
    /\ ret.op = "next_id"
    /\ Len(_images) >= 2
    /\ ret.id = _images[1].id
    /\ ret.val = _images[2].id
    /\ ~Tagged(_images[1])
    /\ Tagged(_images[2])

(* The catalog positions of the tagged records, and the k-th of them. *)
TaggedPositions == {i \in Positions : Tagged(_images[i])}
KthTagged(k) ==
    CHOOSE i \in TaggedPositions :
        Cardinality({j \in TaggedPositions : j <= i}) = k

(* dump_data() is the tagged records of the catalog, as they are, in       *)
(* catalog order.                                                          *)
DumpIsTaggedRecords ==
    /\ Len(dump_data) = Cardinality(TaggedPositions)
    /\ \A k \in 1..Len(dump_data) : dump_data[k] = _images[KthTagged(k)]

(* The record a store changes is in dump_data() after it, and a record in  *)
(* dump_data() stays in it while the program runs.                         *)
DumpKeepsRecords ==
    /\ (ret'.op = "store" /\ ret'.wrote)
           => \E k \in 1..Len(dump_data') : dump_data'[k].id = ret'.arg.id
    /\ ret'.op # "init"
           => \A k \in 1..Len(dump_data) :
                  \E m \in 1..Len(dump_data') : dump_data'[m].id = dump_data[k].id

(* C8: in every state dump_data() is exactly the catalog records whose     *)
(* updated is not null, as they are, in catalog order; and a record is in  *)
(* dump_data() from the first store that changes it onward.                *)
C8_DumpData == []DumpIsTaggedRecords /\ [][DumpKeepsRecords]_vars

(* dump_data called with an untagged record before a tagged one. *)
C8_Witness ==
    /\ ret.op = "dump_data"
    /\ Len(_images) >= 2
    /\ ~Tagged(_images[1])
    /\ Tagged(_images[2])
    /\ ret.rows = <<_images[2]>>

(* C9: in any step after initialization a record's updated goes from null  *)
(* to not null only in a store on its id whose tags or remark differ from  *)
(* the record's; an updated that is not null stays so; the set of catalog  *)
(* ids stays as it is; and no row ever leaves the table.                   *)
C9_Lifecycle ==
    [][/\ ret'.op # "init" =>
             /\ Len(_images') = Len(_images)
             /\ \A i \in Positions : _images'[i].id = _images[i].id
             /\ \A i \in Positions :
                    Tagged(_images[i]) => Tagged(_images'[i])
             /\ \A i \in Positions :
                    (~Tagged(_images[i]) /\ Tagged(_images'[i]))
                        => /\ ret'.op = "store"
                           /\ ret'.arg.id = _images[i].id
                           /\ \/ ret'.arg.tags # _images[i].tags
                              \/ ret'.arg.remark # _images[i].remark
       /\ \A r \in db : \E q \in db' : q.id = r.id
      ]_vars

(* A store that tagged one record, another being still untagged. *)
C9_Witness ==
    /\ ret.op = "store"
    /\ ret.wrote
    /\ \E i \in Positions : _images[i].id = ret.arg.id /\ Tagged(_images[i])
    /\ \E i \in Positions : ~Tagged(_images[i])
    /\ db # {}

(* C10: get and set with a not_found outside silent, warn, error raise     *)
(* ValueError for every path, whether or not the path or a prefix of it is *)
(* in the configuration, and leave the configuration as it was.            *)
C10_InvalidNotFound ==
    [][(cret'.op \in {"get", "set"}
            /\ cret'.not_found \notin {"silent", "warn", "error"})
       => /\ cret'.out.exc = "ValueError"
          /\ _config' = _config
      ]_vars

(* set with an invalid not_found on a path of two segments that is in the  *)
(* configuration.                                                          *)
C10_Witness ==
    /\ cret.op = "set"
    /\ cret.not_found \notin {"silent", "warn", "error"}
    /\ HasSlash(cret.path)
    /\ ConfigReader_get(cret.path, DefaultValue, "error").exc = ""
    /\ cret.out.exc = "ValueError"

(* The segments of a path: the strings between its slashes. *)
RECURSIVE Segments(_)
Segments(path) ==
    IF \A i \in 1..Len(path) : path[i] # "/" THEN <<path>>
    ELSE LET cut == CHOOSE i \in 1..Len(path) :
                        path[i] = "/" /\ \A j \in 1..(i - 1) : path[j] # "/"
         IN  <<SubSeq(path, 1, cut - 1)>>
                 \o Segments(SubSeq(path, cut + 1, Len(path)))

(* Every segment is a key of the mapping the segments before it lead to. *)
RECURSIVE Present(_, _)
Present(node, segments) ==
    /\ node.kind = "map"
    /\ Head(segments) \in DOMAIN node.items
    /\ Len(segments) > 1 => Present(node.items[Head(segments)], Tail(segments))

(* The value the segments lead to. *)
RECURSIVE ValueAt(_, _)
ValueAt(node, segments) ==
    IF Len(segments) = 1 THEN node.items[Head(segments)]
    ELSE ValueAt(node.items[Head(segments)], Tail(segments))

(* C11: get on a path whose every segment is present in the nested         *)
(* mappings returns the value at that path; on a path with a segment       *)
(* missing at any depth it returns the default without raising under       *)
(* silent and warn and raises KeyError under error; and it leaves the      *)
(* configuration as it was.                                                *)
C11_GetResolves ==
    [][(cret'.op = "get" /\ cret'.not_found \in {"silent", "warn", "error"})
       => /\ IF Present(_config, Segments(cret'.path))
             THEN /\ cret'.out.exc = ""
                  /\ cret'.out.val = ValueAt(_config, Segments(cret'.path))
             ELSE IF cret'.not_found = "error"
             THEN cret'.out.exc = "KeyError"
             ELSE /\ cret'.out.exc = ""
                  /\ cret'.out.val = DefaultValue
          /\ _config' = _config
      ]_vars

(* The id list names the catalog records, position by position. *)
IdsNameCatalog ==
    /\ Len(_ids) = Len(_images)
    /\ \A i \in Positions : _ids[i] = _images[i].id

(* A store leaves the id list, the id and path of every record, every      *)
(* record but the one data.id names, and in the table the id and path of   *)
(* every row and every row but the one for data.id; a row it adds is the   *)
(* one for data.id.                                                        *)
StoreTouchesOneRecord ==
    ret'.op = "store" =>
        /\ _ids' = _ids
        /\ Len(_images') = Len(_images)
        /\ \A i \in Positions :
               /\ _images'[i].id = _images[i].id
               /\ _images'[i].path = _images[i].path
               /\ ("id" \notin DOMAIN ret'.arg \/ _images[i].id # ret'.arg.id)
                      => _images'[i] = _images[i]
        /\ \A r \in db :
               \E q \in db' :
                   /\ q.id = r.id
                   /\ q.path = r.path
                   /\ ("id" \notin DOMAIN ret'.arg \/ r.id # ret'.arg.id)
                          => q = r
        /\ \A q \in db' :
               \/ \E r \in db : r.id = q.id
               \/ ("id" \in DOMAIN ret'.arg /\ q.id = ret'.arg.id)
        /\ Cardinality(db') = Cardinality({q.id : q \in db'})

(* C12: store touches nothing but the record it addresses: after any       *)
(* stores the id at position i of the id list is the id of the catalog     *)
(* record at position i; no record's id or path changes; no field of a     *)
(* record other than the addressed one changes; and in the table the id    *)
(* and path of an existing row and all other rows stay as they were.       *)
C12_StoreFrame == []IdsNameCatalog /\ [][StoreTouchesOneRecord]_vars

(* A store that changed the first record of two, both having a row in the  *)
(* table, the other row being older.                                       *)
C12_Witness ==
    /\ ret.op = "store"
    /\ ret.wrote
    /\ ret.exc = ""
    /\ Len(_images) = 2
    /\ _images[1].id = ret.arg.id
    /\ _images[1].updated = now
    /\ Tagged(_images[2])
    /\ _images[2].updated < now
    /\ {r.id : r \in db} = {_images[1].id, _images[2].id}

====
